---------------------------- MODULE Spec2Model ----------------------------
(***************************************************************************)
(* Model of src/src/portfolio_optimizer/utils.py:                          *)
(*   - markovicz_optimizer: the sweep over the target-return grid, and     *)
(*     OptimRes.plot_efficient_horizon, the reporting consumer             *)
(*     (specification Spec);                                               *)
(*   - data_loader: monthly resampling, simple returns, dropna             *)
(*     (specification SpecLoader).                                         *)
(*                                                                         *)
(* Numbers.  The program computes in floating point.  The model computes   *)
(* in integers: every return, mean, target and deviation is an integer     *)
(* number of one fixed-point unit, and the inputs are drawn from sets for  *)
(* which each division the program makes on them is exact.  A quotient     *)
(* that is kept but never computed with (a weight, a Sharpe ratio, a       *)
(* simple return) is the pair <<numerator, denominator>>.                  *)
(***************************************************************************)
EXTENDS Integers, Sequences, FiniteSets

VARIABLES
    \* ---- markovicz_optimizer(df, risk_free_rate) and its locals
    df,                          \* the return table: a sequence of rows, one value per column
    risk_free_rate,
    pc,                          \* "start", "sweep", "return", "report", "plotted", "raised"
                                 \* ("idle" while only data_loader runs)
    cov_matrix, means, stds,
    weights, bounds,
    return_array, variance_array, sharpe_array,
    returns_to_iterate_through,
    idx,                         \* number of grid points the for loop has consumed
    res,                         \* the local `res`: the last solver result
    trace,                       \* history of the optimize.minimize calls, in call order:
                                 \* the grid position, the target, x0 and bounds passed,
                                 \* and the call number, success and fun of the result
    optim_res,                   \* the OptimRes the function returned
    max_sharpe_idx,              \* plot_efficient_horizon's local
    \* ---- data_loader(df) and the successive values of its local df
    lpc,                         \* "load", "resampled", "returns", "done"
                                 \* ("idle" while only the optimizer runs)
    prices,                      \* the input rows: [date, values], dates strictly increasing
    monthly,                     \* after resample(...).first()
    simple,                      \* after df.diff() / df.shift(1)
    loaded                       \* after dropna(): the value returned

optVars == <<df, risk_free_rate, pc, cov_matrix, means, stds, weights, bounds,
             return_array, variance_array, sharpe_array, returns_to_iterate_through,
             idx, res, trace, optim_res, max_sharpe_idx>>
loadVars == <<lpc, prices, monthly, simple, loaded>>
vars == <<optVars, loadVars>>

-----------------------------------------------------------------------------
(* Bounds of the model *)

\* The solver's success/failure patterns explored over the 40 grid points are
\* all those with at most MaxMinority failures and all those with at most
\* MaxMinority successes (every call failing among them).
MaxMinority == 1

-----------------------------------------------------------------------------
(* Arithmetic helpers *)

RECURSIVE SumSeq(_)
SumSeq(s) == IF s = <<>> THEN 0 ELSE Head(s) + SumSeq(Tail(s))

RECURSIVE MaxSeq(_)
MaxSeq(s) == IF Len(s) = 1 THEN s[1]
             ELSE LET m == MaxSeq(Tail(s)) IN IF s[1] >= m THEN s[1] ELSE m

RECURSIVE SqrtIter(_, _)
SqrtIter(n, r) == IF r * r <= n THEN r ELSE SqrtIter(n, (r + n \div r) \div 2)

\* np.sqrt on the fixed-point grid: the integer square root (exact on squares).
ISqrt(n) == IF n = 0 THEN 0 ELSE SqrtIter(n, IF n < 46340 THEN n ELSE 46340)

Column(table, c) == [r \in 1..Len(table) |-> table[r][c]]
NumColumns(table) == Len(table[1])

\* pandas mean of one column.
Mean(col) == SumSeq(col) \div Len(col)

\* pandas sample covariance of two columns (denominator N - 1).
Cov(ca, cb) ==
    LET ma == Mean(ca)
        mb == Mean(cb)
    IN SumSeq([r \in 1..Len(ca) |-> (ca[r] - ma) * (cb[r] - mb)]) \div (Len(ca) - 1)


-----------------------------------------------------------------------------
(* markovicz_optimizer: inputs *)

\* Return tables the optimizer is run on (rows of per-column returns):
\* a positive largest mean, only negative means, a largest mean of zero,
\* and a single-column table of three rows.  The returns are multiples of
\* 26 units (two rows) or 39 units (three rows), so that every column mean,
\* every covariance and the grid step max(means) / 39 are whole numbers.
ReturnTables ==
    { << <<52, 0>>, <<0, -26>> >>,
      << <<-26, -52>>, <<0, -26>> >>,
      << <<0, -26>>, <<0, 0>> >>,
      << <<39>>, <<0>>, <<0>> >> }

RiskFreeRates == {0, 800}

-----------------------------------------------------------------------------
(* markovicz_optimizer: program constants and pure parts *)

return_grid_size == 40
lower_bound == <<0, 1>>          \* 0.0
upper_bound == <<3, 10>>         \* 0.3

\* Variant: a grid that leaves the end point out (endpoint=False).
linspace_no_endpoint(start, stop, num) ==
    [i \in 1..num |-> start + (i - 1) * ((stop - start) \div num)]

\* np.linspace(start, stop, num) as numpy computes it: step = delta / div,
\* y[i] = i * step + start, and the last point is set to stop.
linspace(start, stop, num) ==
    [i \in 1..num |->
        IF num > 1 /\ i = num THEN stop
        ELSE start + (i - 1) * ((stop - start) \div (num - 1))]

calculate_sharpe(ret, std, TBill) == <<ret - TBill, std>>

\* np.sqrt(res.fun) * np.sqrt(12) * 100
AnnualStd(fun) == ISqrt(fun * 12) * 100

NoRes == [call |-> 0, success |-> FALSE, fun |-> 0, x |-> <<>>]

Successes == Cardinality({k \in 1..Len(trace) : trace[k].success})
Failures == Len(trace) - Successes

\* Variant: a sweep that warm-starts each call from the previous solution.
MinimizeArgsWarmStart(ret) ==
    [x0 |-> IF res.success THEN res.x ELSE weights,
     cov |-> cov_matrix,
     returns |-> means,
     return_target |-> ret,
     bounds |-> bounds]

\* The arguments of one optimize.minimize call.
MinimizeArgs(ret) ==
    [x0 |-> weights,
     cov |-> cov_matrix,
     returns |-> means,
     return_target |-> ret,
     bounds |-> bounds]

\* The results optimize.minimize may give for call number `call`.  The solver
\* is a black box: whether the call succeeds is chosen freely; the objective
\* value (0 at the first call, then growing, so that no two calls agree) and
\* the point returned (all weight on one column) are a function of the call.
Minimize(args, call) ==
    { [call |-> call,
       success |-> ok,
       fun |-> 3 * (call - 1) * (call - 1),
       x |-> [c \in 1..Len(args.x0) |->
                 IF c = (call % Len(args.x0)) + 1 THEN <<1, 1>> ELSE <<0, 1>>]]
      : ok \in { b \in BOOLEAN :
                   \/ Failures + (IF b THEN 0 ELSE 1) <= MaxMinority
                   \/ Successes + (IF b THEN 1 ELSE 0) <= MaxMinority } }

-----------------------------------------------------------------------------
(* markovicz_optimizer: steps *)

NoOptimRes == [res |-> NoRes, means |-> <<>>, stds |-> <<>>,
               sharpe_array |-> <<>>, return_array |-> <<>>, variance_array |-> <<>>]

InitOptimizer ==
    /\ df \in ReturnTables
    /\ risk_free_rate \in RiskFreeRates
    /\ pc = "start"
    /\ cov_matrix = <<>> /\ means = <<>> /\ stds = <<>>
    /\ weights = <<>> /\ bounds = <<>>
    /\ return_array = <<>> /\ variance_array = <<>> /\ sharpe_array = <<>>
    /\ returns_to_iterate_through = <<>>
    /\ idx = 0
    /\ res = NoRes
    /\ trace = <<>>
    /\ optim_res = NoOptimRes
    /\ max_sharpe_idx = 0

\* Lines 214-229: statistics, initial weights, bounds, empty arrays, the grid.
Setup ==
    /\ pc = "start"
    /\ LET n == NumColumns(df)
           m == [c \in 1..n |-> (Mean(Column(df, c)) * 12) * 100]
       IN /\ cov_matrix' = [a \in 1..n |-> [b \in 1..n |-> Cov(Column(df, a), Column(df, b))]]
          /\ means' = m
          \* std * sqrt(12) * 100, the square root rounded down to the unit
          /\ stds' = [c \in 1..n |-> ISqrt(Cov(Column(df, c), Column(df, c)) * 12) * 100]
          /\ weights' = [c \in 1..n |-> <<1, n>>]
          /\ bounds' = [c \in 1..n |-> <<lower_bound, upper_bound>>]
          /\ returns_to_iterate_through' = linspace(0, MaxSeq(m), return_grid_size)
    /\ return_array' = <<>> /\ variance_array' = <<>> /\ sharpe_array' = <<>>
    /\ pc' = "sweep"
    /\ UNCHANGED <<df, risk_free_rate, idx, res, trace, optim_res, max_sharpe_idx>>

\* Variant: a loop body without the `if res.success` test.
RecordAlways(r, ret) ==
    /\ sharpe_array' = Append(sharpe_array,
                              calculate_sharpe(ret, AnnualStd(r.fun), risk_free_rate))
    /\ return_array' = Append(return_array, ret)
    /\ variance_array' = Append(variance_array, AnnualStd(r.fun))

\* Variant: a loop body that inserts at the front of the arrays.
RecordPrepend(r, ret) ==
    IF r.success
    THEN /\ sharpe_array' = <<calculate_sharpe(ret, AnnualStd(r.fun), risk_free_rate)>>
                                \o sharpe_array
         /\ return_array' = <<ret>> \o return_array
         /\ variance_array' = <<AnnualStd(r.fun)>> \o variance_array
    ELSE UNCHANGED <<sharpe_array, return_array, variance_array>>

\* Variant: a loop body that computes the Sharpe ratio from res.fun itself.
RecordRawVariance(r, ret) ==
    IF r.success
    THEN /\ sharpe_array' = Append(sharpe_array,
                                   calculate_sharpe(ret, r.fun, risk_free_rate))
         /\ return_array' = Append(return_array, ret)
         /\ variance_array' = Append(variance_array, AnnualStd(r.fun))
    ELSE UNCHANGED <<sharpe_array, return_array, variance_array>>

\* Lines 247-254: what the loop body does with the result r for target ret.
Record(r, ret) ==
    IF r.success
    THEN /\ sharpe_array' = Append(sharpe_array,
                                   calculate_sharpe(ret, AnnualStd(r.fun), risk_free_rate))
         /\ return_array' = Append(return_array, ret)
         /\ variance_array' = Append(variance_array, AnnualStd(r.fun))
    ELSE UNCHANGED <<sharpe_array, return_array, variance_array>>

\* Variant: a loop that tries a failed target again.
AdvanceOnSuccess(r) == IF r.success THEN idx + 1 ELSE idx

\* Line 230: the for loop moves to the next grid point after every iteration.
Advance(r) == idx + 1

\* Lines 230-254: one iteration of the for loop.
Iterate ==
    /\ pc = "sweep"
    /\ idx < Len(returns_to_iterate_through)
    /\ LET ret == returns_to_iterate_through[idx + 1]
           args == MinimizeArgs(ret)
       IN \E r \in Minimize(args, Len(trace) + 1) :
            /\ res' = r
            /\ trace' = Append(trace, [grid_index |-> idx + 1,
                                       return_target |-> args.return_target,
                                       x0 |-> args.x0, bounds |-> args.bounds,
                                       call |-> r.call, success |-> r.success,
                                       fun |-> r.fun])
            /\ Record(r, ret)
            /\ idx' = Advance(r)
    /\ UNCHANGED <<df, risk_free_rate, pc, cov_matrix, means, stds, weights, bounds,
                   returns_to_iterate_through, optim_res, max_sharpe_idx>>

\* The for loop is exhausted.
EndSweep ==
    /\ pc = "sweep"
    /\ idx = Len(returns_to_iterate_through)
    /\ pc' = "return"
    /\ UNCHANGED <<df, risk_free_rate, cov_matrix, means, stds, weights, bounds,
                   return_array, variance_array, sharpe_array, returns_to_iterate_through,
                   idx, res, trace, optim_res, max_sharpe_idx>>

\* Variant: a report that keeps the result of the last successful call.
LastSuccessfulRes ==
    LET ok == {k \in 1..Len(trace) : trace[k].success}
        last == CHOOSE k \in ok : \A j \in ok : j <= k
    IN IF ok = {} THEN res
       ELSE [res EXCEPT !.call = trace[last].call, !.success = TRUE, !.fun = trace[last].fun]

\* Line 256: return OptimRes(res, means, stds, sharpe_array, return_array, variance_array)
ReturnedRes == res

Return ==
    /\ pc = "return"
    /\ optim_res' = [res |-> ReturnedRes, means |-> means, stds |-> stds,
                     sharpe_array |-> sharpe_array, return_array |-> return_array,
                     variance_array |-> variance_array]
    /\ pc' = "report"
    /\ UNCHANGED <<df, risk_free_rate, cov_matrix, means, stds, weights, bounds,
                   return_array, variance_array, sharpe_array, returns_to_iterate_through,
                   idx, res, trace, max_sharpe_idx>>

-----------------------------------------------------------------------------
(* OptimRes.plot_efficient_horizon *)

\* Sharpe ratios are pairs <<n, d>> with d >= 0; d = 0 is what the float
\* division gives: nan for 0/0, +inf or -inf otherwise.
IsNaN(q) == q[1] = 0 /\ q[2] = 0
IsPosInf(q) == q[1] > 0 /\ q[2] = 0
IsNegInf(q) == q[1] < 0 /\ q[2] = 0

\* a < b for two ratios that are not nan.
Less(a, b) ==
    IF IsPosInf(a) \/ IsNegInf(b) THEN FALSE
    ELSE IF IsNegInf(a) \/ IsPosInf(b) THEN TRUE
    ELSE a[1] * b[2] < b[1] * a[2]

\* np.argmax on a non-empty sequence (1-based here): the first nan if there is
\* one, else the first occurrence of the maximum.
argmax(s) ==
    LET nans == {i \in 1..Len(s) : IsNaN(s[i])}
        best == {i \in 1..Len(s) : \A j \in 1..Len(s) : ~Less(s[i], s[j])}
        first(S) == CHOOSE i \in S : \A j \in S : i <= j
    IN IF nans # {} THEN first(nans) ELSE first(best)

\* Lines 137-156 with a non-empty sharpe_array.
plot_efficient_horizon ==
    /\ pc = "report"
    /\ optim_res.sharpe_array # <<>>
    /\ max_sharpe_idx' = argmax(optim_res.sharpe_array)
    /\ pc' = "plotted"
    /\ UNCHANGED <<df, risk_free_rate, cov_matrix, means, stds, weights, bounds,
                   return_array, variance_array, sharpe_array, returns_to_iterate_through,
                   idx, res, trace, optim_res>>

\* Line 150 with an empty sharpe_array: np.argmax raises ValueError
\* ("attempt to get argmax of an empty sequence"), which nothing catches.
plot_efficient_horizon_raises ==
    /\ pc = "report"
    /\ optim_res.sharpe_array = <<>>
    /\ pc' = "raised"
    /\ UNCHANGED <<df, risk_free_rate, cov_matrix, means, stds, weights, bounds,
                   return_array, variance_array, sharpe_array, returns_to_iterate_through,
                   idx, res, trace, optim_res, max_sharpe_idx>>

-----------------------------------------------------------------------------
(* data_loader is idle in the optimizer's specification *)

LoaderIdle ==
    /\ lpc = "idle"
    /\ prices = <<>> /\ monthly = <<>> /\ simple = <<>> /\ loaded = <<>>

Init == InitOptimizer /\ LoaderIdle

Next ==
    \/ Setup /\ UNCHANGED loadVars
    \/ Iterate /\ UNCHANGED loadVars
    \/ EndSweep /\ UNCHANGED loadVars
    \/ Return /\ UNCHANGED loadVars
    \/ plot_efficient_horizon /\ UNCHANGED loadVars
    \/ plot_efficient_horizon_raises /\ UNCHANGED loadVars

Spec == Init /\ [][Next]_vars

-----------------------------------------------------------------------------
(* data_loader: inputs *)

\* Dates are day numbers of one non-leap year (1 = 1 January); 0 is the 31
\* December before it.  Observations are dated in the first NumMonths months,
\* on the first, the 15th or the last day of a month, at most MaxObs of them.
NumMonths == 3
MaxObs == 3

MonthLengths == <<31, 28, 31, 30, 31, 30, 31, 31, 30, 31, 30, 31>>

\* Day number of the last day of month m (m = 0: the previous December).
MonthEnd(m) == SumSeq(SubSeq(MonthLengths, 1, m))
MonthStart(m) == MonthEnd(m - 1) + 1
MonthEnds == {MonthEnd(m) : m \in 0..Len(MonthLengths)}
MonthOf(d) == CHOOSE m \in 1..Len(MonthLengths) : MonthEnd(m - 1) < d /\ d <= MonthEnd(m)

ObsDates == UNION {{MonthStart(m), MonthStart(m) + 14, MonthEnd(m)} : m \in 1..NumMonths}

\* One row of prices: two ticker columns.
PriceRows == {0, 1} \X {0, 1}

RECURSIVE SortedSeq(_)
SortedSeq(S) ==
    IF S = {} THEN <<>>
    ELSE LET m == CHOOSE x \in S : \A y \in S : x <= y
         IN <<m>> \o SortedSeq(S \ {m})

-----------------------------------------------------------------------------
(* data_loader: cells and pure parts *)

\* A cell of a float column is the pair <<n, d>>: the number n/d when d > 0,
\* nan when n = d = 0, +inf or -inf when d = 0 and n # 0.
NaN == <<0, 0>>
Num(p) == <<p, 1>>

\* pandas offsets: MonthEnd.rollback(d), and d + MonthEnd().
Rollback(d) == CHOOSE e \in MonthEnds : e <= d /\ \A f \in MonthEnds : f <= d => f <= e
PlusMonthEnd(d) == CHOOSE e \in MonthEnds : e > d /\ \A f \in MonthEnds : f > d => e <= f

\* The bin edges of resample("M", closed="left"): the month ends from the one
\* at or before the first date to the first one after the last date.
BinEdges(rows) ==
    SortedSeq({e \in MonthEnds : /\ Rollback(rows[1].date) <= e
                                 /\ e <= PlusMonthEnd(rows[Len(rows)].date)})

\* The positions of the rows dated in [lo, hi).
RowsIn(rows, lo, hi) == {i \in 1..Len(rows) : lo <= rows[i].date /\ rows[i].date < hi}

\* .first() over the rows at positions I: per column the first value, nan for none.
First(rows, I) ==
    IF I = {} THEN [c \in 1..Len(rows[1].values) |-> NaN]
    ELSE LET i == CHOOSE x \in I : \A y \in I : x <= y
         IN [c \in 1..Len(rows[1].values) |-> Num(rows[i].values[c])]

\* resample("M", label="left", closed="left").first(): one row per bin
\* [edge k, edge k+1), labelled with its left edge.
ResampleMonthly(rows) ==
    LET edges == BinEdges(rows)
    IN [k \in 1..(Len(edges) - 1) |->
           [label |-> edges[k],
            values |-> First(rows, RowsIn(rows, edges[k], edges[k + 1]))]]

\* One cell of df.diff() / df.shift(1): (cur - prev) / prev in float arithmetic.
SimpleReturn(cur, prev) ==
    IF cur = NaN \/ prev = NaN THEN NaN
    ELSE IF prev[1] = 0
         THEN (IF cur[1] = 0 THEN NaN ELSE IF cur[1] > 0 THEN <<1, 0>> ELSE <<-1, 0>>)
    ELSE <<cur[1] - prev[1], prev[1]>>

\* df.diff() / df.shift(1): the first row has no previous row.
SimpleReturns(rows) ==
    [k \in 1..Len(rows) |->
        [label |-> rows[k].label,
         values |-> [c \in 1..Len(rows[k].values) |->
                        IF k = 1 THEN NaN
                        ELSE SimpleReturn(rows[k].values[c], rows[k - 1].values[c])]]]

\* Variant: dropna(how="all").
DroppedIfAllNaN(row) == \A c \in 1..Len(row.values) : row.values[c] = NaN

\* dropna() drops a row when any of its cells is nan.
Dropped(row) == \E c \in 1..Len(row.values) : row.values[c] = NaN

RECURSIVE DropnaUpTo(_, _)
DropnaUpTo(rows, k) ==
    IF k = 0 THEN <<>>
    ELSE IF Dropped(rows[k]) THEN DropnaUpTo(rows, k - 1)
         ELSE Append(DropnaUpTo(rows, k - 1), rows[k])

-----------------------------------------------------------------------------
(* data_loader: steps *)

InitLoader ==
    /\ lpc = "load"
    /\ \E D \in SUBSET ObsDates :
         /\ D # {} /\ Cardinality(D) <= MaxObs
         /\ \E v \in [1..Cardinality(D) -> PriceRows] :
              prices = [i \in 1..Cardinality(D) |->
                           [date |-> SortedSeq(D)[i], values |-> v[i]]]
    /\ monthly = <<>> /\ simple = <<>> /\ loaded = <<>>

\* Lines 29-32: the Date column becomes the index, then the monthly resample.
Resample ==
    /\ lpc = "load"
    /\ monthly' = ResampleMonthly(prices)
    /\ lpc' = "resampled"
    /\ UNCHANGED <<prices, simple, loaded>>

\* Line 33.
Returns ==
    /\ lpc = "resampled"
    /\ simple' = SimpleReturns(monthly)
    /\ lpc' = "returns"
    /\ UNCHANGED <<prices, monthly, loaded>>

\* Lines 34-35.
Dropna ==
    /\ lpc = "returns"
    /\ loaded' = DropnaUpTo(simple, Len(simple))
    /\ lpc' = "done"
    /\ UNCHANGED <<prices, monthly, simple>>

OptimizerIdle ==
    /\ pc = "idle"
    /\ df = <<>> /\ risk_free_rate = 0
    /\ cov_matrix = <<>> /\ means = <<>> /\ stds = <<>>
    /\ weights = <<>> /\ bounds = <<>>
    /\ return_array = <<>> /\ variance_array = <<>> /\ sharpe_array = <<>>
    /\ returns_to_iterate_through = <<>>
    /\ idx = 0 /\ res = NoRes /\ trace = <<>>
    /\ optim_res = NoOptimRes /\ max_sharpe_idx = 0

LoaderInit == InitLoader /\ OptimizerIdle

LoaderNext ==
    \/ Resample /\ UNCHANGED optVars
    \/ Returns /\ UNCHANGED optVars
    \/ Dropna /\ UNCHANGED optVars

SpecLoader == LoaderInit /\ [][LoaderNext]_vars

-----------------------------------------------------------------------------
(* Claims about markovicz_optimizer and plot_efficient_horizon *)

Swept == pc \in {"sweep", "return", "report", "plotted", "raised"}
Returned == pc \in {"report", "plotted", "raised"}
Arrays == <<return_array, variance_array, sharpe_array>>

\* The grid targets of the first k grid points whose call succeeded, in grid order.
RECURSIVE KeptTargets(_)
KeptTargets(k) ==
    IF k = 0 THEN <<>>
    ELSE IF trace[k].success
         THEN Append(KeptTargets(k - 1), returns_to_iterate_through[k])
         ELSE KeptTargets(k - 1)

\* The first i entries of the three arrays are, in order, what the successful
\* ones among the first k calls produced: the call's target, its objective
\* value as an annualized standard deviation in percent (v with
\* (v / 100)^2 = 12 * fun), and the Sharpe ratio of the two.
RECURSIVE Aligned(_, _)
Aligned(k, i) ==
    IF k = 0 THEN i = 0
    ELSE IF trace[k].success
         THEN /\ i > 0
              /\ return_array[i] = trace[k].return_target
              /\ variance_array[i] >= 0 /\ variance_array[i] % 100 = 0
              /\ (variance_array[i] \div 100) * (variance_array[i] \div 100) = 12 * trace[k].fun
              /\ sharpe_array[i] = <<return_array[i] - risk_free_rate, variance_array[i]>>
              /\ Aligned(k - 1, i - 1)
         ELSE Aligned(k - 1, i)

\* C1: whenever the solver reports failure for a target, nothing is appended
\* to return_array, variance_array or sharpe_array, no exception ends the
\* sweep, and the loop moves on to the next grid point.
C1_FailureSkipsTarget ==
    [][(trace' # trace /\ ~res'.success)
          => /\ Arrays' = Arrays
             /\ pc' = "sweep"
             /\ idx' = idx + 1]_vars

C1_Witness ==
    /\ pc = "sweep" /\ idx = 3 /\ Len(trace) = 3
    /\ trace[1].success /\ ~trace[2].success /\ trace[3].success
    /\ Len(return_array) = 2

\* C2: after any prefix of the sweep and at its end, return_array holds exactly
\* the grid targets whose solver call succeeded, each once, in grid order.
C2_ReturnArrayIsOrderedSubsequence ==
    Swept => /\ return_array = KeptTargets(idx)
             /\ (Returned => optim_res.return_array = KeptTargets(return_grid_size))

C2_Witness ==
    /\ pc = "report"
    /\ ~trace[1].success /\ trace[2].success /\ trace[3].success
    /\ Len(optim_res.return_array) = return_grid_size - 1
    /\ optim_res.return_array[1] # optim_res.return_array[2]

\* C3 as stated: for every return table the grid is non-decreasing, has
\* return_grid_size points, and spans 0 to max(means) inclusive with linear
\* spacing.
C3_GridNonDecreasing ==
    Swept =>
        LET g == returns_to_iterate_through
            top == MaxSeq(means)
        IN /\ Len(g) = return_grid_size
           /\ g[1] = 0 /\ g[return_grid_size] = top
           /\ \A i \in 1..return_grid_size : g[i] * (return_grid_size - 1) = (i - 1) * top
           /\ \A i \in 1..(return_grid_size - 1) : g[i] <= g[i + 1]

\* C3 amended: the grid has return_grid_size points, spans 0 to max(means)
\* inclusive with linear spacing, and is monotone: non-decreasing when
\* max(means) >= 0 and strictly decreasing when max(means) < 0.
C3_GridMonotone ==
    Swept =>
        LET g == returns_to_iterate_through
            top == MaxSeq(means)
        IN /\ Len(g) = return_grid_size
           /\ g[1] = 0 /\ g[return_grid_size] = top
           /\ \A i \in 1..return_grid_size : g[i] * (return_grid_size - 1) = (i - 1) * top
           /\ \A i \in 1..(return_grid_size - 1) :
                 IF top >= 0 THEN g[i] <= g[i + 1] ELSE g[i] > g[i + 1]

C3_Witness ==
    /\ pc = "sweep"
    /\ MaxSeq(means) < 0
    /\ returns_to_iterate_through[2] < returns_to_iterate_through[1]

\* C4: the result stored in the returned OptimRes is the raw result of the
\* solver call for the last grid point, whether it succeeded or failed.
C4_ResIsLastGridPoint ==
    Returned =>
        LET last == trace[Len(trace)]
        IN /\ last.grid_index = return_grid_size
           /\ optim_res.res.call = last.call
           /\ optim_res.res.success = last.success
           /\ optim_res.res.fun = last.fun
           /\ optim_res.res = res

C4_Witness ==
    /\ pc = "report"
    /\ ~optim_res.res.success
    /\ optim_res.return_array # <<>>
    /\ trace[return_grid_size - 1].success

\* C5: when every target of the sweep fails the three arrays of the report
\* are empty, and plot_efficient_horizon handles that report without raising.
C5_EmptyReportIsHandled ==
    (Returned /\ Successes = 0) =>
        /\ optim_res.sharpe_array = <<>>
        /\ optim_res.return_array = <<>>
        /\ optim_res.variance_array = <<>>
        /\ pc # "raised"

\* C6: the three arrays are parallel at every point of the sweep: equal
\* lengths, entry i of each comes from the i-th successful call, and
\* sharpe_array[i] = (return_array[i] - risk_free_rate) / variance_array[i].
C6_ArraysParallel ==
    Swept =>
        /\ Len(sharpe_array) = Len(return_array)
        /\ Len(variance_array) = Len(return_array)
        /\ Aligned(Len(trace), Len(return_array))

C6_Witness ==
    /\ pc = "sweep"
    /\ Len(sharpe_array) = 2 /\ idx = 3
    /\ ~trace[1].success
    /\ variance_array[1] # variance_array[2]
    /\ sharpe_array[2][2] > 0

\* C9: every solver call gets the same uniform initial vector (1/num_assets
\* per component) and the same bounds list, and the sweep leaves the initial
\* weights, the bounds, the covariance matrix and the means as Setup made them.
C9_SameSeedEveryCall ==
    Swept =>
        LET n == NumColumns(df)
            uniform == [c \in 1..n |-> <<1, n>>]
            box == [c \in 1..n |-> << <<0, 1>>, <<3, 10>> >>]
        IN /\ weights = uniform
           /\ bounds = box
           /\ means = [c \in 1..n |-> Mean(Column(df, c)) * 1200]
           /\ cov_matrix = [a \in 1..n |-> [b \in 1..n |-> Cov(Column(df, a), Column(df, b))]]
           /\ \A k \in 1..Len(trace) : trace[k].x0 = weights /\ trace[k].bounds = bounds

C9_Witness ==
    /\ pc = "sweep" /\ Len(trace) = 3
    /\ trace[1].success /\ trace[2].success
    /\ res.success /\ res.x # trace[3].x0
    /\ trace[3].x0 = trace[1].x0

\* C10: the solver is called exactly once per grid point, in grid order, with
\* no retry of a failed target; the sweep ends after the last grid point, so
\* return_array is never longer than the grid.
C10_OneCallPerGridPoint ==
    /\ [](Swept =>
            /\ Len(trace) = idx
            /\ idx <= return_grid_size
            /\ \A k \in 1..Len(trace) :
                  /\ trace[k].grid_index = k
                  /\ trace[k].return_target = returns_to_iterate_through[k]
            /\ (pc # "sweep" => Len(trace) = return_grid_size)
            /\ Len(return_array) <= return_grid_size)
    /\ [][trace' # trace => (Len(trace') = Len(trace) + 1 /\ idx' = idx + 1)]_vars
    /\ [][pc # "sweep" => trace' = trace]_vars

C10_Witness ==
    /\ pc = "report"
    /\ Len(trace) = return_grid_size
    /\ trace[1].success /\ ~trace[2].success
    /\ Len(optim_res.return_array) = return_grid_size - 1

-----------------------------------------------------------------------------
(* Claims about data_loader *)

\* The resampling the docstring of data_loader describes: one row per calendar
\* month from the month of the first date to the month of the last, labelled
\* with the first day of the month, holding the first price dated in
\* [first day of the month, first day of the next month).
ResampleCalendarMonths(rows) ==
    LET m0 == MonthOf(rows[1].date)
        m1 == MonthOf(rows[Len(rows)].date)
    IN [k \in 1..(m1 - m0 + 1) |->
           [label |-> MonthStart(m0 + k - 1),
            values |-> First(rows, RowsIn(rows, MonthStart(m0 + k - 1), MonthStart(m0 + k)))]]

\* Row k of `monthly` has a source observation in its period.
Occupied(k) ==
    RowsIn(prices, monthly[k].label, PlusMonthEnd(monthly[k].label)) # {}

Labels(rows) == [k \in 1..Len(rows) |-> rows[k].label]

\* Some column is 0 in period k and in period k-1 (0/0 is undefined).
ZeroOverZero(k) ==
    \E c \in 1..Len(monthly[k].values) :
        monthly[k].values[c] = Num(0) /\ monthly[k - 1].values[c] = Num(0)

\* C7: the resample is by calendar month: the price used for a month is the
\* first observation dated in [first day of the month, first day of the next
\* month), so an observation dated on the last day of a month is never used
\* as the following month's value.
C7_FirstObservationOfCalendarMonth ==
    lpc # "load" =>
        LET cal == ResampleCalendarMonths(prices)
        IN /\ Len(monthly) = Len(cal)
           /\ \A k \in 1..Len(cal) : monthly[k].values = cal[k].values

\* C8 as stated: the rows dropped after the conversion to simple returns are
\* exactly the first row and every period with no source observation; with an
\* observation in every period the output has period count - 1 rows.
C8_DropsFirstAndEmptyPeriodsOnly ==
    lpc = "done" =>
        /\ Labels(loaded) =
               SortedSeq({monthly[k].label : k \in {j \in 2..Len(monthly) : Occupied(j)}})
        /\ ((\A k \in 1..Len(monthly) : Occupied(k)) => Len(loaded) = Len(monthly) - 1)

\* C8 amended: the rows dropped are exactly the first row, every period with
\* no source observation, every period that directly follows a period with no
\* source observation, and every period in which some price is 0 both in that
\* period and in the one before it; with an observation in every period and no
\* zero price the output has period count - 1 rows.
C8_DropsRowsWithUndefinedReturn ==
    lpc = "done" =>
        /\ Labels(loaded) =
               SortedSeq({monthly[k].label :
                            k \in {j \in 2..Len(monthly) :
                                     /\ Occupied(j) /\ Occupied(j - 1)
                                     /\ ~ZeroOverZero(j)}})
        /\ ((/\ \A k \in 1..Len(monthly) : Occupied(k)
             /\ \A i \in 1..Len(prices) : \A c \in 1..Len(prices[i].values) :
                    prices[i].values[c] # 0)
              => Len(loaded) = Len(monthly) - 1)

C8_Witness ==
    /\ lpc = "done"
    /\ Len(monthly) = 4
    /\ Occupied(1) /\ ~Occupied(2) /\ Occupied(3) /\ Occupied(4)
    /\ Len(loaded) = 1
    /\ loaded[1].label = monthly[4].label

=============================================================================
